---- MODULE Spec2Model ----
(***************************************************************************)
(* Model of hw_01/main.py: the contact data model (Phone, Birthday,        *)
(* Record, AddressBook), the command handlers with their input_error       *)
(* wrapper, and the dispatch loop of main().                               *)
(*                                                                         *)
(* A Python str is a sequence of one-character strings; a datetime.date is *)
(* a record [year, month, day]; the AddressBook (a dict, which keeps       *)
(* insertion order) is the sequence of its Records in insertion order.     *)
(***************************************************************************)
EXTENDS Integers, Sequences, FiniteSets, TLC

\* Number of input lines read in one run of the loop.
MaxCmds == 4

\* len(value) != 10 in Phone.__init__
PhoneLen == 10
\* get_upcoming_birthdays(self, days=7)
DefaultDays == 7
\* birthday.weekday() >= 5
Saturday == 5
\* find_next_weekday(birthday, 0)
Monday == 0

(***************************************************************************)
(* Strings                                                                 *)
(***************************************************************************)
DigitChars == <<"0", "1", "2", "3", "4", "5", "6", "7", "8", "9">>

UpperChars == <<"A", "B", "C", "D", "E", "F", "G", "H", "I", "J", "K", "L", "M",
                "N", "O", "P", "Q", "R", "S", "T", "U", "V", "W", "X", "Y", "Z">>

LowerChars == <<"a", "b", "c", "d", "e", "f", "g", "h", "i", "j", "k", "l", "m",
                "n", "o", "p", "q", "r", "s", "t", "u", "v", "w", "x", "y", "z">>

Whitespace == {" ", "\t"}

IsDigit(c) == \E i \in 1..10 : DigitChars[i] = c

DigitVal(c) == (CHOOSE i \in 1..10 : DigitChars[i] = c) - 1

AllDigits(s) == \A i \in 1..Len(s) : IsDigit(s[i])

RECURSIVE ToInt(_)
\* int() of a string of decimal digits
ToInt(s) ==
  IF Len(s) = 0 THEN 0
  ELSE 10 * ToInt(SubSeq(s, 1, Len(s) - 1)) + DigitVal(s[Len(s)])

\* str.lower() on one character
LowerChar(c) ==
  IF \E i \in 1..26 : UpperChars[i] = c
  THEN LowerChars[CHOOSE i \in 1..26 : UpperChars[i] = c]
  ELSE c

\* str.lower()
StrLower(s) == [i \in 1..Len(s) |-> LowerChar(s[i])]

RECURSIVE LStrip(_)
LStrip(s) ==
  IF Len(s) > 0 /\ Head(s) \in Whitespace THEN LStrip(Tail(s)) ELSE s

RECURSIVE RStrip(_)
RStrip(s) ==
  IF Len(s) > 0 /\ s[Len(s)] \in Whitespace
  THEN RStrip(SubSeq(s, 1, Len(s) - 1))
  ELSE s

\* str.strip()
Strip(s) == RStrip(LStrip(s))

RECURSIVE SplitFrom(_, _, _)
\* scan s from the left; cur is the token being collected, acc the tokens so far
SplitFrom(s, cur, acc) ==
  IF Len(s) = 0
  THEN IF Len(cur) = 0 THEN acc ELSE Append(acc, cur)
  ELSE IF Head(s) \in Whitespace
       THEN SplitFrom(Tail(s), <<>>, IF Len(cur) = 0 THEN acc ELSE Append(acc, cur))
       ELSE SplitFrom(Tail(s), Append(cur, Head(s)), acc)

\* str.split() with no separator: runs of whitespace separate, no empty tokens
Split(s) == SplitFrom(s, <<>>, <<>>)

RECURSIVE SplitOnFrom(_, _, _, _)
SplitOnFrom(s, sep, cur, acc) ==
  IF Len(s) = 0 THEN Append(acc, cur)
  ELSE IF Head(s) = sep
       THEN SplitOnFrom(Tail(s), sep, <<>>, Append(acc, cur))
       ELSE SplitOnFrom(Tail(s), sep, Append(cur, Head(s)), acc)

\* the fields of s between occurrences of the literal character sep
SplitOn(s, sep) == SplitOnFrom(s, sep, <<>>, <<>>)

RECURSIVE Join(_, _)
\* sep.join(parts)
Join(sep, parts) ==
  IF Len(parts) = 0 THEN <<>>
  ELSE IF Len(parts) = 1 THEN parts[1]
  ELSE parts[1] \o sep \o Join(sep, Tail(parts))

\* "%02d" % n
TwoDigits(n) == <<DigitChars[((n \div 10) % 10) + 1], DigitChars[(n % 10) + 1]>>

RECURSIVE Decimal(_)
\* "%d" % n for n >= 0
Decimal(n) ==
  IF n < 10 THEN <<DigitChars[n + 1]>>
  ELSE Append(Decimal(n \div 10), DigitChars[(n % 10) + 1])

\* strftime("%Y"): the C library's rendering of the year. Years of four digits
\* render as they are; a year below 1000 is zero-padded to four digits by some
\* C libraries and left unpadded by others (padsYear tells which).
YearText(y, padsYear) ==
  IF y >= 1000 \/ ~padsYear THEN Decimal(y)
  ELSE TwoDigits(y \div 100) \o TwoDigits(y % 100)

(***************************************************************************)
(* datetime.date                                                           *)
(***************************************************************************)
NoDate == [year |-> 0, month |-> 0, day |-> 0]

Date(y, m, d) == [year |-> y, month |-> m, day |-> d]

IsLeap(y) == y % 4 = 0 /\ (y % 100 # 0 \/ y % 400 = 0)

DaysInMonth(y, m) ==
  IF m = 2 THEN (IF IsLeap(y) THEN 29 ELSE 28)
  ELSE IF m \in {4, 6, 9, 11} THEN 30 ELSE 31

DaysBeforeYear(y) ==
  LET p == y - 1 IN p * 365 + (p \div 4) - (p \div 100) + (p \div 400)

RECURSIVE DaysBeforeMonth(_, _)
DaysBeforeMonth(y, m) ==
  IF m = 1 THEN 0 ELSE DaysBeforeMonth(y, m - 1) + DaysInMonth(y, m - 1)

\* date.toordinal()
ToOrdinal(d) == DaysBeforeYear(d.year) + DaysBeforeMonth(d.year, d.month) + d.day

\* date.weekday(): Monday is 0, Sunday is 6
Weekday(d) == (ToOrdinal(d) + 6) % 7

\* date < date
DateLess(a, b) ==
  \/ a.year < b.year
  \/ a.year = b.year /\ a.month < b.month
  \/ a.year = b.year /\ a.month = b.month /\ a.day < b.day

\* (a - b).days
DaysBetween(a, b) == ToOrdinal(a) - ToOrdinal(b)

NextDay(d) ==
  IF d.day < DaysInMonth(d.year, d.month) THEN Date(d.year, d.month, d.day + 1)
  ELSE IF d.month < 12 THEN Date(d.year, d.month + 1, 1)
  ELSE Date(d.year + 1, 1, 1)

RECURSIVE AddDays(_, _)
\* date + timedelta(days=n), n >= 0
AddDays(d, n) == IF n = 0 THEN d ELSE AddDays(NextDay(d), n - 1)

\* date.replace(year=y): ValueError when the day does not exist in year y
ReplaceYear(d, y) ==
  IF d.day > DaysInMonth(y, d.month)
  THEN [exc |-> "ValueError", val |-> NoDate]
  ELSE [exc |-> "None", val |-> Date(y, d.month, d.day)]

\* %d of strptime: 3[0-1] | [1-2]\d | 0[1-9] | [1-9]
MatchesDay(f) ==
  /\ Len(f) \in {1, 2}
  /\ AllDigits(f)
  /\ ToInt(f) \in 1..31

\* %m of strptime: 1[0-2] | 0[1-9] | [1-9]
MatchesMonth(f) ==
  /\ Len(f) \in {1, 2}
  /\ AllDigits(f)
  /\ ToInt(f) \in 1..12

\* %Y of strptime: \d\d\d\d
MatchesYear(f) == Len(f) = 4 /\ AllDigits(f)

\* datetime.strptime(value, "%d-%m-%Y").date()
strptime(value) ==
  LET f == SplitOn(value, "-") IN
  IF /\ Len(f) = 3
     /\ MatchesDay(f[1])
     /\ MatchesMonth(f[2])
     /\ MatchesYear(f[3])
     /\ ToInt(f[3]) >= 1
     /\ ToInt(f[1]) <= DaysInMonth(ToInt(f[3]), ToInt(f[2]))
  THEN [exc |-> "None", val |-> Date(ToInt(f[3]), ToInt(f[2]), ToInt(f[1]))]
  ELSE [exc |-> "ValueError", val |-> NoDate]

\* date.strftime("%d-%m-%Y")
StrftimeDMY(d, padsYear) ==
  TwoDigits(d.day) \o <<"-">> \o TwoDigits(d.month) \o <<"-">> \o YearText(d.year, padsYear)

\* date.strftime("%Y.%m.%d")
StrftimeYMD(d, padsYear) ==
  YearText(d.year, padsYear) \o <<".">> \o TwoDigits(d.month) \o <<".">> \o TwoDigits(d.day)

(***************************************************************************)
(* Field value types, Record, AddressBook                                  *)
(***************************************************************************)
\* Phone.__init__: only the length of the value is checked
Phone(value) ==
  IF Len(value) # PhoneLen
  THEN [exc |-> "ValueError", val |-> <<>>]
  ELSE [exc |-> "None", val |-> value]

\* Birthday.__init__
Birthday(value) == strptime(value)

\* Record.__init__
Record(name) == [name |-> name, phones |-> <<>>, birthday |-> NoDate]

\* Record.add_phone
Record_add_phone(rec, phone_number) ==
  LET p == Phone(phone_number) IN
  IF p.exc # "None" THEN [exc |-> p.exc, rec |-> rec]
  ELSE [exc |-> "None", rec |-> [rec EXCEPT !.phones = Append(@, p.val)]]

\* Record.add_birthday
Record_add_birthday(rec, birthday) ==
  LET b == Birthday(birthday) IN
  IF b.exc # "None" THEN [exc |-> b.exc, rec |-> rec]
  ELSE [exc |-> "None", rec |-> [rec EXCEPT !.birthday = b.val]]

\* Record.find_phone: position of the first Phone with that value, 0 for None
find_phone(rec, phone_number) ==
  IF \E i \in 1..Len(rec.phones) : rec.phones[i] = phone_number
  THEN CHOOSE i \in 1..Len(rec.phones) :
         /\ rec.phones[i] = phone_number
         /\ \A j \in 1..(i - 1) : rec.phones[j] # phone_number
  ELSE 0

\* Record.edit_phone without its break: every Phone equal to the old number
\* gets the new value
edit_phone_without_break(rec, old_phone_number, new_phone_number) ==
  [rec EXCEPT !.phones = [k \in 1..Len(rec.phones) |->
                            IF rec.phones[k] = old_phone_number
                            THEN new_phone_number
                            ELSE rec.phones[k]]]

\* Record.edit_phone: the first Phone equal to the old number gets the new value,
\* which is stored as given
edit_phone(rec, old_phone_number, new_phone_number) ==
  LET i == find_phone(rec, old_phone_number) IN
  IF i = 0 THEN rec
  ELSE [rec EXCEPT !.phones[i] = new_phone_number]

\* AddressBook.find: position of the Record under that key, 0 for None
find(b, name) ==
  IF \E i \in 1..Len(b) : b[i].name = name
  THEN CHOOSE i \in 1..Len(b) : b[i].name = name
  ELSE 0

\* AddressBook.add_record: self.data[record.name.value] = record
add_record(b, rec) ==
  LET i == find(b, rec.name) IN
  IF i = 0 THEN Append(b, rec) ELSE [b EXCEPT ![i] = rec]

\* Record.__str__
Record_str(rec) ==
  <<"C", "o", "n", "t", "a", "c", "t", " ", "n", "a", "m", "e", ":", " ">>
    \o rec.name
    \o <<",", " ", "p", "h", "o", "n", "e", "s", ":", " ">>
    \o Join(<<";", " ">>, rec.phones)

\* AddressBook.__str__
AddressBook_str(b) == Join(<<"\n">>, [i \in 1..Len(b) |-> Record_str(b[i])])

\* AddressBook.find_next_weekday
find_next_weekday(start_date, weekday) ==
  LET days_ahead == weekday - Weekday(start_date) IN
  AddDays(start_date, IF days_ahead <= 0 THEN days_ahead + 7 ELSE days_ahead)

\* AddressBook.adjust_for_weekend
adjust_for_weekend(birthday) ==
  IF Weekday(birthday) >= Saturday THEN find_next_weekday(birthday, Monday)
  ELSE birthday

\* The body of the loop of get_upcoming_birthdays for one record: the entries
\* it appends (none or one), or the exception it raises.
UpcomingOf(rec, today, days, padsYear) ==
  IF rec.birthday = NoDate THEN [exc |-> "None", val |-> <<>>]
  ELSE
    LET this == ReplaceYear(rec.birthday, today.year) IN
    IF this.exc # "None" THEN [exc |-> this.exc, val |-> <<>>]
    ELSE
      LET next == IF DateLess(this.val, today)
                  THEN ReplaceYear(this.val, today.year + 1)
                  ELSE this
      IN
      IF next.exc # "None" THEN [exc |-> next.exc, val |-> <<>>]
      ELSE
        LET delta == DaysBetween(next.val, today) IN
        IF 0 <= delta /\ delta <= days
        THEN [exc |-> "None",
              val |-> << [name |-> rec.name,
                          birthday |-> StrftimeYMD(adjust_for_weekend(next.val), padsYear)] >>]
        ELSE [exc |-> "None", val |-> <<>>]

RECURSIVE UpcomingFrom(_, _, _, _, _, _)
UpcomingFrom(b, i, acc, today, days, padsYear) ==
  IF i > Len(b) THEN [exc |-> "None", val |-> acc]
  ELSE
    LET r == UpcomingOf(b[i], today, days, padsYear) IN
    IF r.exc # "None" THEN [exc |-> r.exc, val |-> <<>>]
    ELSE UpcomingFrom(b, i + 1, acc \o r.val, today, days, padsYear)

\* AddressBook.get_upcoming_birthdays, today being what date.today() returns
get_upcoming_birthdays(b, today, days, padsYear) ==
  UpcomingFrom(b, 1, <<>>, today, days, padsYear)

(***************************************************************************)
(* Command handlers                                                        *)
(***************************************************************************)
\* What a handler returns or shows: a fixed message (msg), or a computed
\* string (data), or the AddressBook itself (kind "book").
Msg(m) == [kind |-> "str", msg |-> m, data |-> <<>>]

Data(s) == [kind |-> "str", msg |-> "", data |-> s]

BookObject == [kind |-> "book", msg |-> "", data |-> <<>>]

NoValue == [kind |-> "none", msg |-> "", data |-> <<>>]

\* The outcome of a call: the exception that left it ("None" when it returned),
\* the value returned, and the AddressBook as the call left it.
Return(r, b) == [exc |-> "None", ret |-> r, book |-> b]

Raise(e, b) == [exc |-> e, ret |-> NoValue, book |-> b]

\* input_error without its "except ValueError" clause
input_error_without_ValueError(res) ==
  IF res.exc = "IndexError" THEN Return(Msg("Give me name and phone please."), res.book)
  ELSE IF res.exc = "KeyError" THEN Return(Msg("Name not found."), res.book)
  ELSE res

\* input_error: the three except clauses; any other exception passes through
input_error(res) ==
  IF res.exc = "ValueError" THEN Return(Msg("Incorrect value."), res.book)
  ELSE IF res.exc = "IndexError" THEN Return(Msg("Give me name and phone please."), res.book)
  ELSE IF res.exc = "KeyError" THEN Return(Msg("Name not found."), res.book)
  ELSE res

\* add_contact that makes and stores a new Record whether or not the name has
\* one already
add_contact_always_new_record(a, b) ==
  IF Len(a) < 2 THEN Raise("ValueError", b)
  ELSE
    LET name == a[1]
        phone == a[2]
        message == IF find(b, name) = 0 THEN "Contact added." ELSE "Contact updated."
        b1 == add_record(b, Record(name))
        i == find(b1, name)
    IN
    IF Len(phone) > 0
    THEN LET r == Record_add_phone(b1[i], phone) IN
         IF r.exc # "None" THEN Raise(r.exc, b1)
         ELSE Return(Msg(message), [b1 EXCEPT ![i] = r.rec])
    ELSE Return(Msg(message), b1)

\* add_contact, undecorated. "name, phone, *_ = args" raises ValueError when
\* args has fewer than two items.
add_contact_undecorated(a, b) ==
  IF Len(a) < 2 THEN Raise("ValueError", b)
  ELSE
    LET name == a[1]
        phone == a[2]
        found == find(b, name)
        b1 == IF found = 0 THEN add_record(b, Record(name)) ELSE b
        message == IF found = 0 THEN "Contact added." ELSE "Contact updated."
        i == find(b1, name)
    IN
    IF Len(phone) > 0
    THEN LET r == Record_add_phone(b1[i], phone) IN
         IF r.exc # "None" THEN Raise(r.exc, b1)
         ELSE Return(Msg(message), [b1 EXCEPT ![i] = r.rec])
    ELSE Return(Msg(message), b1)

add_contact(a, b) == input_error(add_contact_undecorated(a, b))

\* change_contact, undecorated. "name, old_phone, new_phone = args" raises
\* ValueError unless args has exactly three items.
change_contact_undecorated(a, b) ==
  IF Len(a) # 3 THEN Raise("ValueError", b)
  ELSE
    LET name == a[1]
        old_phone == a[2]
        new_phone == a[3]
        i == find(b, name)
    IN
    IF i # 0 /\ find_phone(b[i], old_phone) # 0
    THEN Return(Msg("Contact updated."),
                [b EXCEPT ![i] = edit_phone(b[i], old_phone, new_phone)])
    ELSE Raise("KeyError", b)

change_contact(a, b) == input_error(change_contact_undecorated(a, b))

\* show_phone, undecorated
show_phone_undecorated(a, b) ==
  LET name == Join(<<>>, a)
      i == find(b, name)
  IN
  IF i # 0
  THEN Return(IF Len(b[i].phones) > 0
              THEN Data(Join(<<";", " ">>, b[i].phones))
              ELSE Msg("No phones"), b)
  ELSE Raise("KeyError", b)

show_phone(a, b) == input_error(show_phone_undecorated(a, b))

\* show_all
show_all(b) == input_error(Return(BookObject, b))

\* add_birthday, undecorated. "name, birthday = args" raises ValueError unless
\* args has exactly two items.
add_birthday_undecorated(a, b) ==
  IF Len(a) # 2 THEN Raise("ValueError", b)
  ELSE
    LET name == a[1]
        birthday == a[2]
        i == find(b, name)
    IN
    IF i # 0
    THEN LET r == Record_add_birthday(b[i], birthday) IN
         IF r.exc # "None" THEN Raise(r.exc, b)
         ELSE Return(Msg("Birthday added."), [b EXCEPT ![i] = r.rec])
    ELSE Raise("KeyError", b)

add_birthday(a, b) == input_error(add_birthday_undecorated(a, b))

\* show_birthday, undecorated
show_birthday_undecorated(a, b, padsYear) ==
  LET name == Join(<<>>, a)
      i == find(b, name)
  IN
  IF i # 0
  THEN Return(IF b[i].birthday # NoDate
              THEN Data(StrftimeDMY(b[i].birthday, padsYear))
              ELSE Msg("No birthday for this contact."), b)
  ELSE Raise("KeyError", b)

show_birthday(a, b, padsYear) == input_error(show_birthday_undecorated(a, b, padsYear))

\* f"{item['name']} - {item['birthday']}"
EntryStr(item) == item.name \o <<" ", "-", " ">> \o item.birthday

\* birthdays, undecorated, given what get_upcoming_birthdays() did
birthdays_undecorated(up, b) ==
  IF up.exc # "None" THEN Raise(up.exc, b)
  ELSE IF Len(up.val) > 0
  THEN Return(Data(Join(<<"\n">>, [i \in 1..Len(up.val) |-> EntryStr(up.val[i])])), b)
  ELSE Return(Msg("No upcoming birthdays."), b)

birthdays(up, b) == input_error(birthdays_undecorated(up, b))

\* ConsoleView.display_data / display_message: the text printed
Display(r) == IF r.ret.kind = "book" THEN Data(AddressBook_str(r.book)) ELSE r.ret

\* parse_input: "command, *args = user_input.split()" raises ValueError on a line
\* with no tokens; otherwise the lowered command followed by the arguments
parse_input(user_input) ==
  LET t == Split(user_input) IN
  IF Len(t) = 0 THEN [exc |-> "ValueError", val |-> <<>>]
  ELSE [exc |-> "None", val |-> <<StrLower(Strip(Head(t)))>> \o Tail(t)]

(***************************************************************************)
(* Input lines                                                             *)
(***************************************************************************)
John == <<"j", "o", "h", "n">>
Ann == <<"a", "n", "n">>
Names == {John, Ann}

\* two well-formed numbers, ten characters that are not all digits, a short one
P1 == <<"1", "2", "3", "4", "5", "6", "7", "8", "9", "0">>
P2 == <<"0", "9", "8", "7", "6", "5", "4", "3", "2", "1">>
PAlpha == <<"1", "2", "3", "4", "5", "a", "b", "c", "d", "e">>
PShort == <<"1", "2", "3">>

DLeap == <<"2", "9", "-", "0", "2", "-", "2", "0", "0", "0">>
DMarch == <<"0", "2", "-", "0", "3", "-", "1", "9", "9", "0">>
DMarchShort == <<"2", "-", "3", "-", "1", "9", "9", "0">>
DNewYear == <<"0", "1", "-", "0", "1", "-", "0", "9", "9", "9">>
DNoSuchDay == <<"3", "1", "-", "0", "2", "-", "2", "0", "0", "0">>
DDotted == <<"1", "9", "9", "0", ".", "0", "3", ".", "0", "2">>
DateTokens == {DLeap, DMarch, DMarchShort, DNewYear, DNoSuchDay, DDotted}

\* values of date.today()
Todays ==
  { Date(2024, 2, 23), Date(2024, 2, 24), Date(2024, 2, 26),
    Date(2025, 2, 26), Date(2025, 3, 2), Date(2022, 12, 31) }

CmdClose == <<"c", "l", "o", "s", "e">>
CmdExit == <<"e", "x", "i", "t">>
CmdHello == <<"h", "e", "l", "l", "o">>
CmdAdd == <<"a", "d", "d">>
CmdChange == <<"c", "h", "a", "n", "g", "e">>
CmdPhone == <<"p", "h", "o", "n", "e">>
CmdAll == <<"a", "l", "l">>
CmdAddBirthday == <<"a", "d", "d", "-", "b", "i", "r", "t", "h", "d", "a", "y">>
CmdShowBirthday == <<"s", "h", "o", "w", "-", "b", "i", "r", "t", "h", "d", "a", "y">>
CmdBirthdays == <<"b", "i", "r", "t", "h", "d", "a", "y", "s">>
CmdDelete == <<"d", "e", "l", "e", "t", "e">>

\* the line a user types for these tokens
Line(tokens) == Join(<<" ">>, tokens)

CloseLines ==
  { Line(<<CmdClose>>), Line(<<CmdExit>>), Line(<<CmdExit, John>>),
    <<"E", "X", "I", "T">>, <<" ", "C", "l", "o", "s", "e", " ">> }

HelloLines == { Line(<<CmdHello>>), <<"H", "e", "l", "l", "o">>, Line(<<CmdHello, John>>) }

AddArgs ==
  {<<>>, <<John>>, <<John, P2, Ann>>, <<Ann, PShort, P1>>}
    \cup { <<n, p>> : n \in Names, p \in {P1, PAlpha, PShort} }

AddLines == { Line(<<CmdAdd>> \o a) : a \in AddArgs } \cup { <<"A", "d", "d", " ">> \o Line(<<John, P1>>) }

ChangeArgs ==
  {<<>>, <<John, P1>>, <<John, P1, P2, P2>>, <<Ann, P1, P2>>, <<John, PAlpha, P1>>}
    \cup { <<John, P1, p>> : p \in {P2, PShort, PAlpha} }

ChangeLines == { Line(<<CmdChange>> \o a) : a \in ChangeArgs }

PhoneLines ==
  { Line(<<CmdPhone>> \o a) : a \in {<<>>, <<John>>, <<Ann>>, <<<<"j", "o">>, <<"h", "n">>>>} }

AllLines == { Line(<<CmdAll>>), Line(<<CmdAll, John>>) }

AddBirthdayArgs ==
  {<<>>, <<John>>, <<John, DMarch, DLeap>>}
    \cup { <<John, d>> : d \in DateTokens }
    \cup { <<Ann, d>> : d \in {DLeap, DMarch} }

AddBirthdayLines == { Line(<<CmdAddBirthday>> \o a) : a \in AddBirthdayArgs }

ShowBirthdayLines == { Line(<<CmdShowBirthday>> \o a) : a \in {<<>>, <<John>>, <<Ann>>} }

BirthdaysLines == { Line(<<CmdBirthdays>>) }

InvalidLines == { Line(<<CmdDelete, John>>), <<"f", "o", "o">>, Line(<<P1>>) }

EmptyLines == { <<>>, <<" ", " ">> }

\* each line of a set with what parse_input makes of it
Parsed(lines) == { [line |-> l, parsed |-> parse_input(l)] : l \in lines }

ParsedCloseLines == Parsed(CloseLines)
ParsedHelloLines == Parsed(HelloLines)
ParsedAddLines == Parsed(AddLines)
ParsedChangeLines == Parsed(ChangeLines)
ParsedPhoneLines == Parsed(PhoneLines)
ParsedAllLines == Parsed(AllLines)
ParsedAddBirthdayLines == Parsed(AddBirthdayLines)
ParsedShowBirthdayLines == Parsed(ShowBirthdayLines)
ParsedBirthdaysLines == Parsed(BirthdaysLines)
ParsedInvalidLines == Parsed(InvalidLines)
ParsedEmptyLines == Parsed(EmptyLines)

(***************************************************************************)
(* The dispatch loop                                                       *)
(***************************************************************************)
VARIABLES
  book,       \* main: book, the AddressBook
  pc,         \* main: "awaiting" in the loop, "done" after the break, "crashed"
              \* when an exception left main
  fault,      \* the exception that left main, "None" if none did
  out,        \* what the view displayed last
  user_input, \* main: user_input, the last line read
  command,        \* main: command
  args,       \* main: args
  today,      \* get_upcoming_birthdays: today, as of its last call
  upcoming,   \* what the last call of get_upcoming_birthdays did
  saved,      \* the snapshot save_data wrote
  ncmds,      \* number of lines read so far
  addLog,     \* history: the <<name, phone>> pairs added, while every line read
              \* was an add that succeeded
  bdayText    \* history: per name, the text of the last birthday that was set

vars == <<book, pc, fault, out, user_input, command, args, today, upcoming, saved, ncmds, addLog, bdayText>>

Init ==
  /\ book = <<>>
  /\ pc = "awaiting"
  /\ fault = "None"
  /\ out = Msg("Welcome to the assistant bot!")
  /\ user_input = <<>>
  /\ command = <<>>
  /\ args = <<>>
  /\ today = NoDate
  /\ upcoming = [exc |-> "None", val |-> <<>>]
  /\ saved = <<>>
  /\ ncmds = 0
  /\ addLog = [ok |-> TRUE, log |-> <<>>]
  /\ bdayText = [n \in Names |-> <<>>]

\* the if/elif chain of main for a command other than close and exit
Dispatch(c, a, b, up, padsYear) ==
  IF c = CmdHello THEN Return(Msg("How can I help you?"), b)
  ELSE IF c = CmdAdd THEN add_contact(a, b)
  ELSE IF c = CmdChange THEN change_contact(a, b)
  ELSE IF c = CmdPhone THEN show_phone(a, b)
  ELSE IF c = CmdAll THEN show_all(b)
  ELSE IF c = CmdAddBirthday THEN add_birthday(a, b)
  ELSE IF c = CmdShowBirthday THEN show_birthday(a, b, padsYear)
  ELSE IF c = CmdBirthdays THEN birthdays(up, b)
  ELSE Return(Msg("Invalid command."), b)

AddSucceeded(c, r) ==
  /\ c = CmdAdd
  /\ r.exc = "None"
  /\ r.ret \in {Msg("Contact added."), Msg("Contact updated.")}

\* One iteration of the while loop of main on a line read, in.line, which
\* parse_input takes to in.parsed; t is the value of date.today() and padsYear
\* the C library's way with "%Y".
main_loop(in, t, padsYear) ==
  /\ pc = "awaiting"
  /\ ncmds < MaxCmds
  /\ ncmds' = ncmds + 1
  /\ user_input' = in.line
  /\ IF in.parsed.exc # "None"
     THEN /\ pc' = "crashed"
          /\ fault' = in.parsed.exc
          /\ UNCHANGED <<book, out, command, args, today, upcoming, saved, addLog, bdayText>>
     ELSE
       LET c == Head(in.parsed.val)
           a == Tail(in.parsed.val)
       IN
       /\ command' = c
       /\ args' = a
       /\ IF c \in {CmdClose, CmdExit}
          THEN /\ out' = Msg("Goodbye!")
               /\ saved' = book
               /\ pc' = "done"
               /\ addLog' = [addLog EXCEPT !.ok = FALSE]
               /\ UNCHANGED <<book, fault, today, upcoming, bdayText>>
          ELSE
            \E up \in { IF c = CmdBirthdays
                        THEN get_upcoming_birthdays(book, t, DefaultDays, padsYear)
                        ELSE upcoming } :
            \E r \in { Dispatch(c, a, book, up, padsYear) } :
              /\ today' = IF c = CmdBirthdays THEN t ELSE today
              /\ upcoming' = up
              /\ book' = r.book
              /\ addLog' = IF addLog.ok /\ AddSucceeded(c, r)
                           THEN [addLog EXCEPT !.log = Append(@, <<a[1], a[2]>>)]
                           ELSE [addLog EXCEPT !.ok = FALSE]
              /\ bdayText' = IF c = CmdAddBirthday /\ r.exc = "None"
                                /\ r.ret = Msg("Birthday added.")
                             THEN [bdayText EXCEPT ![a[1]] = a[2]]
                             ELSE bdayText
              /\ IF r.exc = "None"
                 THEN /\ out' = Display(r)
                      /\ UNCHANGED <<pc, fault>>
                 ELSE /\ pc' = "crashed"
                      /\ fault' = r.exc
                      /\ UNCHANGED out
              /\ UNCHANGED saved

ReadClose == \E in \in ParsedCloseLines : main_loop(in, today, TRUE)
ReadHello == \E in \in ParsedHelloLines : main_loop(in, today, TRUE)
ReadAdd == \E in \in ParsedAddLines : main_loop(in, today, TRUE)
ReadChange == \E in \in ParsedChangeLines : main_loop(in, today, TRUE)
ReadPhone == \E in \in ParsedPhoneLines : main_loop(in, today, TRUE)
ReadAll == \E in \in ParsedAllLines : main_loop(in, today, TRUE)
ReadAddBirthday == \E in \in ParsedAddBirthdayLines : main_loop(in, today, TRUE)
ReadShowBirthday == \E in \in ParsedShowBirthdayLines, pads \in BOOLEAN : main_loop(in, today, pads)
ReadBirthdays == \E in \in ParsedBirthdaysLines, t \in Todays, pads \in BOOLEAN : main_loop(in, t, pads)
ReadInvalid == \E in \in ParsedInvalidLines : main_loop(in, today, TRUE)
ReadEmpty == \E in \in ParsedEmptyLines : main_loop(in, today, TRUE)

Next ==
  \/ ReadClose
  \/ ReadHello
  \/ ReadAdd
  \/ ReadChange
  \/ ReadPhone
  \/ ReadAll
  \/ ReadAddBirthday
  \/ ReadShowBirthday
  \/ ReadBirthdays
  \/ ReadInvalid
  \/ ReadEmpty

Spec == Init /\ [][Next]_vars

(***************************************************************************)
(* Properties                                                              *)
(***************************************************************************)
IncorrectValue == Msg("Incorrect value.")
MissingArguments == Msg("Give me name and phone please.")
NameNotFound == Msg("Name not found.")
ErrorMessages == {IncorrectValue, MissingArguments, NameNotFound}

HandlerCommands ==
  {CmdAdd, CmdChange, CmdPhone, CmdAll, CmdAddBirthday, CmdShowBirthday, CmdBirthdays}

RecognizedCommands == HandlerCommands \cup {CmdHello}

\* the last line read had a token, so that parse_input returned and command and
\* args are what it made of the line
LineParsed == \E k \in 1..Len(user_input) : user_input[k] \notin Whitespace

TenDigits(s) == Len(s) = 10 /\ AllDigits(s)

HasName(b, name) == \E i \in 1..Len(b) : b[i].name = name

\* C1: whatever the AddressBook and whatever the argument tokens, a recognized
\* command (add, change, phone, all, add-birthday, show-birthday, birthdays,
\* hello) ends with a result or one of the three fixed messages displayed; no
\* exception leaves the handler, and the loop is awaiting the next command.
C1_NoFailureLeavesAHandler ==
  (LineParsed /\ command \in RecognizedCommands) =>
    /\ pc = "awaiting"
    /\ fault = "None"
    /\ out.kind = "str"
    /\ (upcoming.exc # "None" /\ command = CmdBirthdays => out \in ErrorMessages)

\* birthdays was read, date.replace raised ValueError inside
\* get_upcoming_birthdays, and the wrapper turned it into "Incorrect value."
C1_Witness ==
  /\ LineParsed
  /\ command = CmdBirthdays
  /\ upcoming.exc = "ValueError"
  /\ out = IncorrectValue
  /\ pc = "awaiting"

\* C2: the loop ends only on a line whose first token is close or exit in any
\* letter case; every other line, a line with no tokens included, gets a
\* response and the loop awaits the next one; an unrecognized command gets
\* "Invalid command.".
C2_OnlyCloseAndExitEndTheLoop ==
  /\ pc # "awaiting" => (LineParsed /\ command \in {CmdClose, CmdExit})
  /\ (LineParsed /\ command \notin RecognizedCommands \cup {CmdClose, CmdExit})
       => out = Msg("Invalid command.")

\* C3: add with a phone that is not exactly ten digits returns "Incorrect
\* value." and appends no Phone of that value to any Record.
C3_AddRejectsAllButTenDigits ==
  [][ (LineParsed' /\ command' = CmdAdd /\ Len(args') >= 2 /\ ~TenDigits(args'[2]))
        => /\ out' = IncorrectValue
           /\ \A i \in 1..Len(book') :
                \A k \in 1..Len(book'[i].phones) :
                  book'[i].phones[k] = args'[2]
                    => i <= Len(book) /\ k <= Len(book[i].phones)
     ]_vars

\* C4: add with fewer than two argument tokens returns "Give me name and phone
\* please.", whatever the AddressBook.
C4_AddWithoutNameOrPhone ==
  (LineParsed /\ command = CmdAdd /\ Len(args) < 2) => out = MissingArguments

\* C9: every Phone of every Record has a value of exactly ten digits, in every
\* state reachable from the empty book; in particular a change never stores a
\* new number that is not a valid phone.
C9_EveryStoredPhoneIsTenDigits ==
  \A i \in 1..Len(book) :
    \A k \in 1..Len(book[i].phones) : TenDigits(book[i].phones[k])

\* C10: when a handler returns one of the three error messages, the AddressBook
\* is as it was before the command: same names, same phones, same birthdays.
C10_ErrorLeavesBookUnchanged ==
  [][ (LineParsed' /\ command' \in HandlerCommands /\ ncmds' # ncmds
         /\ out' \in ErrorMessages)
        => book' = book
     ]_vars

\* C5: change name old new returns "Name not found." and leaves the book as
\* it was when the book has no Record for the name or that Record has no Phone
\* equal to old; otherwise the first Phone equal to old takes the value new in
\* place: the phone list keeps its length, every other position keeps its
\* value, and no other Record changes.
C5_ChangeReplacesFirstMatchInPlace ==
  [][ (LineParsed' /\ command' = CmdChange /\ Len(args') = 3 /\ ncmds' # ncmds)
        => LET name == args'[1]
               old == args'[2]
               new == args'[3]
               Holds(i) == /\ book[i].name = name
                           /\ \E k \in 1..Len(book[i].phones) : book[i].phones[k] = old
           IN
           IF ~ \E i \in 1..Len(book) : Holds(i)
           THEN out' = NameNotFound /\ book' = book
           ELSE
             /\ out' \notin ErrorMessages
             /\ Len(book') = Len(book)
             /\ \A i \in 1..Len(book) :
                  IF Holds(i)
                  THEN /\ book'[i].name = book[i].name
                       /\ book'[i].birthday = book[i].birthday
                       /\ Len(book'[i].phones) = Len(book[i].phones)
                       /\ \E k \in 1..Len(book[i].phones) :
                            /\ book[i].phones[k] = old
                            /\ \A m \in 1..(k - 1) : book[i].phones[m] # old
                            /\ book'[i].phones[k] = new
                            /\ \A m \in 1..Len(book[i].phones) :
                                 m # k => book'[i].phones[m] = book[i].phones[m]
                  ELSE book'[i] = book[i]
     ]_vars

\* a change went through on a Record that held the old number twice: the first
\* one now has the new value and the second still has the old one
C5_Witness ==
  /\ LineParsed
  /\ command = CmdChange
  /\ Len(args) = 3
  /\ out = Msg("Contact updated.")
  /\ \E i \in 1..Len(book) :
       /\ book[i].name = args[1]
       /\ \E k, m \in 1..Len(book[i].phones) :
            /\ k < m
            /\ book[i].phones[k] = args[3]
            /\ book[i].phones[m] = args[2]
            /\ args[2] # args[3]

\* the phones of the log that were added under a name, in the order added
PhonesAdded(log, name) ==
  LET IsName(e) == e[1] = name
      mine == SelectSeq(log, IsName)
  IN [k \in 1..Len(mine) |-> mine[k][2]]

\* C6: after any sequence of successful adds, the book holds exactly one Record
\* per distinct name, its phones being those added under the name in the order
\* added, duplicates kept; the first add for a name returns "Contact added."
\* and every later one "Contact updated."; find(name) returns a Record that
\* contains every phone added.
C6_AddsBuildOneRecordPerName ==
  addLog.ok =>
    LET log == addLog.log IN
    /\ \A i, j \in 1..Len(book) : book[i].name = book[j].name => i = j
    /\ { book[i].name : i \in 1..Len(book) } = { log[k][1] : k \in 1..Len(log) }
    /\ \A i \in 1..Len(book) : book[i].phones = PhonesAdded(log, book[i].name)
    /\ \A k \in 1..Len(log) :
         /\ find(book, log[k][1]) # 0
         /\ \E m \in 1..Len(book[find(book, log[k][1])].phones) :
              book[find(book, log[k][1])].phones[m] = log[k][2]
    /\ Len(log) > 0 =>
         out = IF \E k \in 1..(Len(log) - 1) : log[k][1] = log[Len(log)][1]
               THEN Msg("Contact updated.")
               ELSE Msg("Contact added.")

\* three adds went through, for two names, one of which got two phones
C6_Witness ==
  /\ addLog.ok
  /\ Len(addLog.log) = 3
  /\ Len(book) = 2
  /\ \E i \in 1..Len(book) : Len(book[i].phones) = 2
  /\ out = Msg("Contact updated.")

\* the first Monday after d
MondayAfter(d) == AddDays(d, CHOOSE k \in 1..7 : Weekday(AddDays(d, k)) = Monday)

\* the date reported for an occurrence d: d itself from Monday to Friday, the
\* first Monday after it on a Saturday or a Sunday
Reported(d) == IF Weekday(d) \in {5, 6} THEN MondayAfter(d) ELSE d

\* the days n from t, 0 <= n <= days, that fall on the birthday's day and month
OccurrencesWithin(birthday, t, days) ==
  { n \in 0..days : /\ AddDays(t, n).month = birthday.month
                    /\ AddDays(t, n).day = birthday.day }

RECURSIVE ExpectedUpcoming(_, _, _)
\* one entry, in book order, for each Record whose birthday next occurs within
\* days days of t
ExpectedUpcoming(b, t, days) ==
  IF Len(b) = 0 THEN <<>>
  ELSE
    LET rec == Head(b)
        ns == IF rec.birthday = NoDate THEN {} ELSE OccurrencesWithin(rec.birthday, t, days)
    IN
    (IF ns = {} THEN <<>>
     ELSE LET n == CHOOSE x \in ns : \A y \in ns : x <= y IN
          << [name |-> rec.name,
              birthday |-> StrftimeYMD(Reported(AddDays(t, n)), TRUE)] >>)
      \o ExpectedUpcoming(Tail(b), t, days)

\* C7: get_upcoming_birthdays(days) returns, in book insertion order, exactly
\* one entry for each Record with a Birthday whose next occurrence d on or
\* after today has 0 <= d - today <= days, and none for any other Record; the
\* date reported is d from Monday to Friday and the first Monday after d on a
\* weekend.
C7_UpcomingBirthdaysAreTheNextOccurrences ==
  (LineParsed /\ command = CmdBirthdays) =>
    upcoming = [exc |-> "None", val |-> ExpectedUpcoming(book, today, DefaultDays)]

\* a text of the form DD-MM-YYYY that names a day of the calendar
IsDDMMYYYY(text) ==
  /\ Len(text) = 10
  /\ text[3] = "-"
  /\ text[6] = "-"
  /\ \A k \in {1, 2, 4, 5, 7, 8, 9, 10} : IsDigit(text[k])
  /\ strptime(text).exc = "None"

\* C8: after a successful add-birthday name D, D a valid DD-MM-YYYY date,
\* show-birthday name returns the text D until the next successful add-birthday
\* for the name; add-birthday returns "Name not found." for an unknown name and
\* "Incorrect value." for a malformed date; show-birthday returns "No birthday
\* for this contact." when none was ever set and "Name not found." for an
\* unknown name.
C8_ShowBirthdayReturnsTheTextSet ==
  /\ (LineParsed /\ command = CmdShowBirthday /\ Len(args) = 1) =>
       IF ~HasName(book, args[1]) THEN out = NameNotFound
       ELSE IF bdayText[args[1]] = <<>> THEN out = Msg("No birthday for this contact.")
       ELSE IsDDMMYYYY(bdayText[args[1]]) => out = Data(bdayText[args[1]])
  /\ (LineParsed /\ command = CmdAddBirthday /\ Len(args) = 2) =>
       IF ~HasName(book, args[1]) THEN out = NameNotFound
       ELSE IF strptime(args[2]).exc # "None" THEN out = IncorrectValue
       ELSE out = Msg("Birthday added.")

====
